---- MODULE Spec2Model ----
(***************************************************************************)
(* MTA_Subway_Tracker: the ingestion cycle of app/App.py (snapshot store   *)
(* and historical log) and the dataset assembler of                        *)
(* build_training_data.py (time parser, delay, service calendar, trip      *)
(* matching, joins and the final filter).                                  *)
(*                                                                         *)
(* Python strings that the code takes apart (time strings, trip ids, stop  *)
(* ids, dates) are sequences of one-character strings.  An optional value  *)
(* is None (the empty tuple) or a one-element tuple <<v>>.                 *)
(***************************************************************************)
EXTENDS Integers, Sequences, FiniteSets, TLC

VARIABLES
    \* ---- app/App.py: the two sqlite stores and one ingestion cycle ----
    rt,             \* realtime.db trip_updates, committed rows in rowid order
    hist,           \* historical_data.db trip_updates, committed rows
    rtTx,           \* realtime.db as seen by the cycle's open transaction
    histTx,         \* historical_data.db as seen by the cycle's transaction
    rtSeq,          \* AUTOINCREMENT counter of realtime.db (committed)
    rtSeqTx,        \* AUTOINCREMENT counter inside the open transaction
    histSeq,        \* AUTOINCREMENT counter of historical_data.db
    histSeqTx,      \* the same inside the open transaction
    pc,             \* position of process_and_store_data
    batch,          \* the stop-time updates decoded in the current cycle
    pos,            \* number of updates of the batch already inserted
    cycles,         \* ingestion cycles started so far
    lastCycle,      \* how the last cycle ended, and the committed stores
                    \* when it started
    \* ---- build_training_data.py: static tables and one run of main ----
    calendar_df,    \* calendar.txt
    trips_df,       \* trips.txt
    stop_times_df,  \* stop_times.txt
    realtime_df,    \* realtime_df after step 2a (service ids, dropna)
    matched_trips_df, \* result of the trip merge (step 2b)
    merged_df,      \* result of the stop_times merge (step 2c)
    delay_seconds,  \* the delay_seconds column computed over merged_df
    training_data,  \* training_data.csv: None, or <<rows>>
    mainResult      \* how main ended

vars == <<rt, hist, rtTx, histTx, rtSeq, rtSeqTx, histSeq, histSeqTx, pc,
          batch, pos, cycles, lastCycle, calendar_df, trips_df, stop_times_df, realtime_df,
          matched_trips_df, merged_df, delay_seconds, training_data,
          mainResult>>

ingestVars == <<rt, hist, rtTx, histTx, rtSeq, rtSeqTx, histSeq, histSeqTx,
                pc, batch, pos, cycles, lastCycle>>

staticVars == <<calendar_df, trips_df, stop_times_df>>

mainVars == <<realtime_df, matched_trips_df, merged_df, delay_seconds,
              training_data, mainResult>>

None == <<>>

Some(v) == <<v>>

\* an exception that nothing catches, in place of a returned value
Raised(exception) == <<exception, "raised">>

OverflowError == Raised("OverflowError")

(***************************************************************************)
(* Strings                                                                 *)
(***************************************************************************)
DigitChars == <<"0", "1", "2", "3", "4", "5", "6", "7", "8", "9">>

IsDigit(c) == \E i \in 1..10 : DigitChars[i] = c

DigitVal(c) == (CHOOSE i \in 1..10 : DigitChars[i] = c) - 1

\* index of the first occurrence of sep in s, 0 when there is none
RECURSIVE FindFrom(_, _, _)
FindFrom(s, sep, i) ==
    IF i > Len(s) THEN 0
    ELSE IF s[i] = sep THEN i
    ELSE FindFrom(s, sep, i + 1)

\* str.split(sep): the fields between the separators, at least one field
RECURSIVE Split(_, _)
Split(s, sep) ==
    LET i == FindFrom(s, sep, 1) IN
    IF i = 0 THEN <<s>>
    ELSE <<SubSeq(s, 1, i - 1)>> \o Split(SubSeq(s, i + 1, Len(s)), sep)

\* str.split(sep, 1): at most one split
Split1(s, sep) ==
    LET i == FindFrom(s, sep, 1) IN
    IF i = 0 THEN <<s>>
    ELSE <<SubSeq(s, 1, i - 1), SubSeq(s, i + 1, Len(s))>>

RECURSIVE DigitsValue(_)
DigitsValue(f) ==
    IF f = <<>> THEN 0
    ELSE 10 * DigitsValue(SubSeq(f, 1, Len(f) - 1)) + DigitVal(f[Len(f)])

AllDigits(f) == f # <<>> /\ \A i \in 1..Len(f) : IsDigit(f[i])

\* int(text): digits with an optional sign; None stands for ValueError
\* (surrounding blanks and the underscore, which int() accepts too, are not
\* among the characters of the sample strings)
IntOf(f) ==
    IF AllDigits(f) THEN Some(DigitsValue(f))
    ELSE IF Len(f) >= 2 /\ f[1] = "+" /\ AllDigits(Tail(f))
    THEN Some(DigitsValue(Tail(f)))
    ELSE IF Len(f) >= 2 /\ f[1] = "-" /\ AllDigits(Tail(f))
    THEN Some(0 - DigitsValue(Tail(f)))
    ELSE None

\* str(n) of a non-negative integer
RECURSIVE StrOfInt(_)
StrOfInt(n) ==
    IF n < 10 THEN <<DigitChars[n + 1]>>
    ELSE StrOfInt(n \div 10) \o <<DigitChars[(n % 10) + 1]>>

\* two-digit zero-padded field, as datetime's str() prints hours, minutes
\* and seconds
Pad2(n) == IF n < 10 THEN <<"0">> \o StrOfInt(n) ELSE StrOfInt(n)

(***************************************************************************)
(* build_training_data.py: robust_time_parser and calculate_delay          *)
(***************************************************************************)
SecondsPerDay == 86400

TwelveHours == 12 * 3600

\* datetime.strptime(time_str, '%H:%M:%S').time(): None stands for
\* ValueError.  %H is one or two digits in 0..23, %M and %S one or two
\* digits in 0..59 (a seconds field of 60 or 61 matches the pattern but the
\* datetime constructor rejects it with ValueError as well).
Strptime(time_str) ==
    LET parts == Split(time_str, ":")
        ok(f, max) == /\ Len(f) \in {1, 2}
                      /\ AllDigits(f)
                      /\ DigitsValue(f) <= max
    IN IF /\ Len(parts) = 3
          /\ ok(parts[1], 23)
          /\ ok(parts[2], 59)
          /\ ok(parts[3], 59)
       THEN Some(IntOf(parts[1])[1] * 3600 + IntOf(parts[2])[1] * 60
                 + IntOf(parts[3])[1])
       ELSE None

TimeOfTimedeltaUnwrapped(h, m, s) == h * 3600 + m * 60 + s

\* (datetime.min + timedelta(hours=h, minutes=m, seconds=s)).time():
\* the time of day of the sum, the day count is dropped
TimeOfTimedelta(h, m, s) == (h * 3600 + m * 60 + s) % SecondsPerDay

\* the except-branch of robust_time_parser: the first three fields are
\* read, further fields are not looked at.  datetime.min plus a negative
\* timedelta raises OverflowError, which the inner except clause
\* (ValueError, IndexError) does not catch.  (So does a sum beyond the year
\* 9999, from an hour field of eight digits and more; the sample strings
\* have none.)
ExtendedParse(time_str) ==
    LET parts == Split(time_str, ":") IN
    IF Len(parts) < 3 THEN None                       \* IndexError
    ELSE IF \E i \in 1..3 : IntOf(parts[i]) = None THEN None   \* ValueError
    ELSE IF IntOf(parts[1])[1] * 3600 + IntOf(parts[2])[1] * 60
                + IntOf(parts[3])[1] < 0
    THEN OverflowError
    ELSE Some(TimeOfTimedelta(IntOf(parts[1])[1], IntOf(parts[2])[1],
                              IntOf(parts[3])[1]))

\* values of a frame cell that are not str: a float NaN and an integer
NonStrings == {<<"float('nan')">>, <<"730">>}

\* isinstance(time_str, str)
IsStr(time_str) == time_str \notin NonStrings

\* a datetime.time is the number of seconds since midnight, 0..86399
robust_time_parser(time_str) ==
    IF ~ IsStr(time_str) THEN None
    ELSE IF Strptime(time_str) # None THEN Strptime(time_str)
    ELSE ExtendedParse(time_str)

calculate_delay_inclusive(row) ==
    LET scheduled_time == robust_time_parser(row.scheduled_arrival)
        actual_time == robust_time_parser(row.actual_arrival)
    IN IF scheduled_time = OverflowError \/ actual_time = OverflowError
       THEN OverflowError
       ELSE IF scheduled_time = None \/ actual_time = None THEN None
       ELSE LET scheduled_dt == scheduled_time[1]
                actual_dt == actual_time[1]
                overnight == /\ actual_dt < scheduled_dt
                             /\ scheduled_dt - actual_dt >= TwelveHours
                actual_fixed == IF overnight THEN actual_dt + SecondsPerDay
                                ELSE actual_dt
            IN Some(actual_fixed - scheduled_dt)

calculate_delay(row) ==
    LET scheduled_time == robust_time_parser(row.scheduled_arrival)
        actual_time == robust_time_parser(row.actual_arrival)
    IN IF scheduled_time = OverflowError \/ actual_time = OverflowError
       THEN OverflowError
       ELSE IF scheduled_time = None \/ actual_time = None THEN None
       ELSE LET scheduled_dt == scheduled_time[1]
                actual_dt == actual_time[1]
                overnight == /\ actual_dt < scheduled_dt
                             /\ scheduled_dt - actual_dt > TwelveHours
                actual_fixed == IF overnight THEN actual_dt + SecondsPerDay
                                ELSE actual_dt
            IN Some(actual_fixed - scheduled_dt)

(***************************************************************************)
(* build_training_data.py, main, "3. Calculate Delay & 4. Save"            *)
(***************************************************************************)
ImplausibleDelay == 7200

final_columns == {"route_id", "trip_id_realtime", "track_direction",
                  "stop_id", "stop_name", "start_date", "start_time",
                  "scheduled_arrival", "actual_arrival", "delay_seconds"}

Abs(x) == IF x < 0 THEN 0 - x ELSE x

\* merged_df.apply(calculate_delay, axis=1)
DelayColumn(m) == [i \in 1..Len(m) |-> calculate_delay(m[i])]

\* apply passes on what calculate_delay raises, and main has no handler
DelayRaises(delays) == \E i \in 1..Len(delays) : delays[i] = OverflowError

\* merged_df[[col for col in final_columns if col in merged_df.columns]]
\* with the new delay_seconds column
WithDelay(row, d) ==
    LET full == [c \in DOMAIN row \cup {"delay_seconds"} |->
                    IF c = "delay_seconds" THEN d ELSE row[c]]
    IN [c \in DOMAIN full \cap final_columns |-> full[c]]

\* dropna(subset=['delay_seconds']) and then the |delay| < 7200 filter;
\* a kept row carries the number itself
KeepRowInclusive(d) == d # None /\ Abs(d[1]) <= ImplausibleDelay

KeepRow(d) == d # None /\ Abs(d[1]) < ImplausibleDelay

RECURSIVE FinalDf(_, _)
FinalDf(m, delays) ==
    IF m = <<>> THEN <<>>
    ELSE LET d == Head(delays)
             rest == FinalDf(Tail(m), Tail(delays))
         IN IF KeepRow(d)
            THEN <<WithDelay(Head(m), d[1])>> \o rest
            ELSE rest

(***************************************************************************)
(* app/App.py: process_and_store_data                                      *)
(***************************************************************************)
\* data/stops.txt: stop_id -> stop_name.  As in the MTA file, the two
\* platforms of one station carry the same name.
stops_df ==
    [sid \in {<<"1", "N">>, <<"1", "S">>, <<"2", "N">>} |->
        IF sid = <<"2", "N">> THEN <<"Q">> ELSE <<"P">>]

EndsWith(s, c) == s # <<>> /\ s[Len(s)] = c

TrackDirection(stop_id) ==
    IF EndsWith(stop_id, "N") THEN "Northbound"
    ELSE IF EndsWith(stop_id, "S") THEN "Southbound"
    ELSE "Unknown"

\* stops_df.loc[stop_id, "stop_name"], the raw id when the lookup raises
StopName(stop_id) ==
    IF stop_id \in DOMAIN stops_df THEN stops_df[stop_id] ELSE stop_id

\* America/New_York on the sample dates (Eastern Standard Time, UTC-5)
UtcOffsetHours == 5

\* str(datetime.fromtimestamp(t, tz=ZoneInfo("America/New_York")))[11:19]
LocalTimeStr(t) ==
    LET local == (t - UtcOffsetHours * 3600) % SecondsPerDay IN
    Pad2(local \div 3600) \o <<":">> \o Pad2((local % 3600) \div 60)
        \o <<":">> \o Pad2(local % 60)

\* the data_tuple of one stop_time_update u of a trip_update
DataTuple(u) ==
    [route_id |-> u.route_id, trip_id |-> u.trip_id,
     direction_id |-> u.direction_id,
     track_direction |-> TrackDirection(u.stop_id),
     start_time |-> u.start_time, start_date |-> u.start_date,
     stop_name |-> StopName(u.stop_id),
     arrival_time |-> LocalTimeStr(u.arrival),
     departure_time |-> LocalTimeStr(u.departure)]

\* a table row: the data_tuple with its AUTOINCREMENT id
WithId(t, id) ==
    [c \in DOMAIN t \cup {"id"} |-> IF c = "id" THEN id ELSE t[c]]

\* UNIQUE(trip_id, start_date, stop_name)
NaturalKey(r) == <<r.trip_id, r.start_date, r.stop_name>>

\* INSERT INTO trip_updates ... on realtime.db
Insert(table, t, id) == Append(table, WithId(t, id))

InsertAlways(table, t, id) == Append(table, WithId(t, id))

InsertOrReplace(table, t, id) ==
    LET Other(r) == NaturalKey(r) # NaturalKey(t) IN
    Append(SelectSeq(table, Other), WithId(t, id))

\* INSERT OR IGNORE INTO trip_updates ... on historical_data.db: the row is
\* left out when a row with its natural key is there
InsertOrIgnore(table, t, id) ==
    IF \E i \in 1..Len(table) : NaturalKey(table[i]) = NaturalKey(t)
    THEN table
    ELSE Append(table, WithId(t, id))

DeleteAllKeep(table) == table

\* DELETE FROM trip_updates
DeleteAll(table) == <<>>

MaxCycles == 2

MaxBatch == 2

\* 2024-01-01 00:00:00 in New York, as a POSIX timestamp
NewYear2024 == 19723 * 86400 + 5 * 3600

Update(trip, date, stop, arr) ==
    [route_id |-> "1", trip_id |-> trip, direction_id |-> 0,
     start_time |-> <<"0", "0", ":", "0", "0", ":", "0", "0">>,
     start_date |-> date, stop_id |-> stop, arrival |-> arr,
     departure |-> arr]

Monday == <<"2", "0", "2", "4", "0", "1", "0", "1">>

Saturday == <<"2", "0", "2", "4", "0", "1", "0", "6">>

\* the stop_time_updates a decoded feed can carry
Updates ==
    { Update(<<"0", "1", "_", "X">>, Monday, <<"1", "N">>, NewYear2024 + 10),
      Update(<<"0", "1", "_", "X">>, Monday, <<"1", "N">>, NewYear2024 + 120),
      Update(<<"0", "2", "_", "X">>, Monday, <<"9">>, NewYear2024 + 10) }

RECURSIVE SeqsUpTo(_, _)
SeqsUpTo(S, n) ==
    IF n = 0 THEN {<<>>}
    ELSE LET shorter == SeqsUpTo(S, n - 1) IN
         shorter \cup {Append(q, x) : q \in shorter, x \in S}

\* lines 46-54: the connections are opened and the snapshot table is
\* emptied inside realtime.db's transaction.  decoded is the concatenation
\* of the stop_time_updates of the responses that are present and parse
\* (lines 56-75).
StartCycle(decoded) ==
    /\ pc = "idle"
    /\ cycles < MaxCycles
    /\ cycles' = cycles + 1
    /\ batch' = decoded
    /\ pos' = 0
    /\ rtTx' = DeleteAll(rtTx)
    /\ pc' = "insert"
    /\ lastCycle' = [outcome |-> "running", rt0 |-> rt, hist0 |-> hist]
    /\ UNCHANGED <<rt, hist, histTx, rtSeq, rtSeqTx, histSeq, histSeqTx>>
    /\ UNCHANGED <<staticVars, mainVars>>

\* lines 76-108, one stop_time_update: both INSERTs.  Each statement takes
\* the next AUTOINCREMENT id, the ignored one as well.
InsertUpdate ==
    /\ pc = "insert"
    /\ pos < Len(batch)
    /\ LET t == DataTuple(batch[pos + 1]) IN
          /\ rtTx' = Insert(rtTx, t, rtSeqTx + 1)
          /\ rtSeqTx' = rtSeqTx + 1
          /\ histTx' = InsertOrIgnore(histTx, t, histSeqTx + 1)
          /\ histSeqTx' = histSeqTx + 1
    /\ pos' = pos + 1
    /\ UNCHANGED <<rt, hist, rtSeq, histSeq, pc, batch, cycles, lastCycle>>
    /\ UNCHANGED <<staticVars, mainVars>>

\* lines 110-111: conn_realtime.commit()
CommitRealtime ==
    /\ pc = "insert"
    /\ pos = Len(batch)
    /\ rt' = rtTx
    /\ rtSeq' = rtSeqTx
    /\ pc' = "commit_historical"
    /\ UNCHANGED <<hist, rtTx, histTx, rtSeqTx, histSeq, histSeqTx, batch,
                   pos, cycles, lastCycle>>
    /\ UNCHANGED <<staticVars, mainVars>>

\* lines 112-114: conn_historical.commit() and return
CommitHistorical ==
    /\ pc = "commit_historical"
    /\ hist' = histTx
    /\ histSeq' = histSeqTx
    /\ pc' = "idle"
    /\ lastCycle' = [lastCycle EXCEPT !.outcome = "completed"]
    /\ UNCHANGED <<rt, rtTx, histTx, rtSeq, rtSeqTx, histSeqTx, batch, pos,
                   cycles>>
    /\ UNCHANGED <<staticVars, mainVars>>

\* a sqlite3 error raised by the statement or the commit the cycle is at:
\* the exception leaves process_and_store_data, nothing catches it, and
\* each connection is dropped with its uncommitted transaction.  At
\* pc = "insert" neither store was committed; at pc = "commit_historical"
\* realtime.db already was.
StorageFailure ==
    /\ pc \in {"insert", "commit_historical"}
    /\ rtTx' = rt
    /\ rtSeqTx' = rtSeq
    /\ histTx' = hist
    /\ histSeqTx' = histSeq
    /\ pc' = "idle"
    /\ lastCycle' = [lastCycle EXCEPT !.outcome = "failed"]
    /\ UNCHANGED <<rt, hist, rtSeq, histSeq, batch, pos, cycles>>
    /\ UNCHANGED <<staticVars, mainVars>>

(***************************************************************************)
(* build_training_data.py: get_service_id_for_date                         *)
(***************************************************************************)
IsLeap(y) == (y % 4 = 0 /\ y % 100 # 0) \/ y % 400 = 0

DaysInMonth(y, m) ==
    IF m = 2 THEN (IF IsLeap(y) THEN 29 ELSE 28)
    ELSE IF m \in {4, 6, 9, 11} THEN 30 ELSE 31

RECURSIVE DaysBeforeMonth(_, _)
DaysBeforeMonth(y, m) ==
    IF m = 1 THEN 0
    ELSE DaysBeforeMonth(y, m - 1) + DaysInMonth(y, m - 1)

\* datetime.date(y, m, d).toordinal()
ToOrdinal(y, m, d) ==
    LET py == y - 1 IN
    py * 365 + py \div 4 - py \div 100 + py \div 400
        + DaysBeforeMonth(y, m) + d

\* datetime.date(y, m, d).weekday(): Monday is 0, Sunday is 6
Weekday(y, m, d) == (ToOrdinal(y, m, d) + 6) % 7

day_map == <<"monday", "tuesday", "wednesday", "thursday", "friday",
             "saturday", "sunday">>

\* the row filter of lines 67-71
Active(r, date, day_col) ==
    /\ r.start_date <= date
    /\ r.end_date >= date
    /\ r[day_col] = 1

LastActive(active_services) ==
    IF active_services # <<>>
    THEN Some(active_services[Len(active_services)].service_id)
    ELSE None

\* line 74: active_services[0] if active_services else None
FirstActive(active_services) ==
    IF active_services # <<>> THEN Some(Head(active_services).service_id)
    ELSE None

\* date_str is an 8-character string of digits naming a calendar date
get_service_id_for_date(date_str, cal) ==
    LET year == IntOf(SubSeq(date_str, 1, 4))[1]
        month == IntOf(SubSeq(date_str, 5, 6))[1]
        day == IntOf(SubSeq(date_str, 7, 8))[1]
        day_col == day_map[Weekday(year, month, day) + 1]
        Test(r) == Active(r, IntOf(date_str)[1], day_col)
    IN FirstActive(SelectSeq(cal, Test))

(***************************************************************************)
(* build_training_data.py: main                                            *)
(***************************************************************************)
AddColumn(r, col, v) ==
    [c \in DOMAIN r \cup {col} |-> IF c = col THEN v ELSE r[c]]

RenameColumn(r, old, new) ==
    [c \in (DOMAIN r \ {old}) \cup {new} |->
        IF c = new THEN r[old] ELSE r[c]]

\* lines 82 and 101: SELECT * FROM trip_updates, arrival_time renamed
LoadRealtime(log) ==
    [i \in 1..Len(log) |->
        RenameColumn(log[i], "arrival_time", "actual_arrival")]

\* lines 107-111: start_date to int, the service_id column, and dropna
RECURSIVE Step2a(_, _)
Step2a(df, cal) ==
    IF df = <<>> THEN <<>>
    ELSE LET r == Head(df)
             date == IntOf(r.start_date)[1]
             sid == get_service_id_for_date(StrOfInt(date), cal)
             rest == Step2a(Tail(df), cal)
         IN IF sid = None THEN rest
            ELSE <<AddColumn([r EXCEPT !.start_date = date],
                             "service_id", sid[1])>> \o rest

\* line 127: x.split('_')[0] if '_' in x else x
RealtimeToken(x) == IF FindFrom(x, "_", 1) # 0 THEN Split(x, "_")[1] ELSE x

\* line 130: x.split('_', 1)[-1].split('_')[0] if '_' in x else x
StaticToken(x) ==
    IF FindFrom(x, "_", 1) # 0
    THEN LET parts == Split1(x, "_") IN Split(parts[Len(parts)], "_")[1]
    ELSE x

\* the merge keys of lines 146-147, direction_id as str on both sides
KeysMatch(r, t) ==
    /\ r.route_id = t.route_id
    /\ StrOfInt(r.direction_id) = t.direction_id
    /\ r.service_id = t.service_id
    /\ RealtimeToken(r.trip_id) = StaticToken(t.trip_id)

\* one row of the inner merge: the columns of the left row, trip_id split
\* into trip_id_realtime and trip_id_static by the suffixes
MatchedRow(r, t) ==
    LET left == [RenameColumn(r, "trip_id", "trip_id_realtime")
                    EXCEPT !.direction_id = StrOfInt(r.direction_id)]
        a == AddColumn(left, "realtime_start_time_str",
                       RealtimeToken(r.trip_id))
        b == AddColumn(a, "trip_id_static", t.trip_id)
    IN AddColumn(b, "static_start_time_str", StaticToken(t.trip_id))

RECURSIVE MatchesOf(_, _)
MatchesOf(r, trips) ==
    IF trips = <<>> THEN <<>>
    ELSE (IF KeysMatch(r, Head(trips)) THEN <<MatchedRow(r, Head(trips))>>
          ELSE <<>>) \o MatchesOf(r, Tail(trips))

\* lines 143-150: pd.merge(..., how='inner'), one output row for every
\* (left row, right row) pair with equal keys, in the order of the left rows
RECURSIVE Step2b(_, _)
Step2b(df, trips) ==
    IF df = <<>> THEN <<>>
    ELSE MatchesOf(Head(df), trips) \o Step2b(Tail(df), trips)

\* lines 160: matched_trips_df['stop_id'] raises KeyError when the frame
\* has no such column
HasColumn(df, col) == \A i \in 1..Len(df) : col \in DOMAIN df[i]

RECURSIVE StopTimesOf(_, _)
StopTimesOf(r, st) ==
    IF st = <<>> THEN <<>>
    ELSE (IF r.trip_id_static = Head(st).trip_id
             /\ r.stop_id = Head(st).stop_id
          THEN <<AddColumn(AddColumn(r, "trip_id", Head(st).trip_id),
                           "scheduled_arrival", Head(st).scheduled_arrival)>>
          ELSE <<>>) \o StopTimesOf(r, Tail(st))

\* lines 164-171: the inner merge on (trip_id_static, stop_id)
RECURSIVE Step2c(_, _)
Step2c(df, st) ==
    IF df = <<>> THEN <<>>
    ELSE StopTimesOf(Head(df), st) \o Step2c(Tail(df), st)

\* one run of main over the committed historical log.  The variables keep
\* each frame as it stood when main returned or raised.
main ==
    \E loaded \in {LoadRealtime(hist)} :
    \E with_service \in {Step2a(loaded, calendar_df)} :
    \E matched \in {Step2b(with_service, trips_df)} :
    \E key_error \in {matched # <<>> /\ ~ HasColumn(matched, "stop_id")} :
    \E joined \in {IF matched = <<>> \/ key_error THEN <<>>
                   ELSE Step2c(matched, stop_times_df)} :
    \E delays \in {DelayColumn(joined)} :
    /\ realtime_df' = with_service
    /\ matched_trips_df' = matched
    /\ merged_df' = joined
    /\ delay_seconds' = IF DelayRaises(delays) THEN delay_seconds ELSE delays
    /\ training_data' =
          IF joined = <<>> \/ DelayRaises(delays) THEN training_data
          ELSE Some(FinalDf(joined, delays))
    /\ mainResult' =
          IF loaded = <<>> THEN "empty_log"
          ELSE IF with_service = <<>> THEN "no_service"
          ELSE IF matched = <<>> THEN "no_match"
          ELSE IF key_error THEN "KeyError"
          ELSE IF joined = <<>> THEN "empty_merge"
          ELSE IF DelayRaises(delays) THEN "OverflowError"
          ELSE "saved"
    /\ UNCHANGED <<ingestVars, staticVars>>

(***************************************************************************)
(* Sample time strings                                                     *)
(***************************************************************************)
MaxHour == 26

MinSecs == {<<0, 0>>, <<0, 1>>, <<0, 10>>, <<2, 0>>, <<5, 30>>, <<10, 0>>,
            <<58, 0>>, <<59, 50>>}

TimeStr(h, m, s) == Pad2(h) \o <<":">> \o Pad2(m) \o <<":">> \o Pad2(s)

Hours == {0, 1, 8, 10, 11, 12, 13, 23} \cup 24..MaxHour

GoodTimes == {TimeStr(h, ms[1], ms[2]) : h \in Hours, ms \in MinSecs}

BadTimes == {<<"x", "x", ":", "0", "0", ":", "0", "0">>,
             <<"1", "2", ":", "x", "x", ":", "0", "0">>,
             <<"1", "2", ":", "0", "0">>} \cup NonStrings

\* not HH:MM:SS, and read as a time all the same
LaxTimes == {<<"7", ":", "5", ":", "9">>,
             <<"1", ":", "2", ":", "3", ":", "4">>,
             <<"+", "1", ":", "0", "0", ":", "0", "0">>}

\* a negative field
NegativeTimes == {<<"-", "1", ":", "0", "0", ":", "0", "0">>,
                  <<"0", "0", ":", "0", "0", ":", "-", "1">>}

SampleTimes == GoodTimes \cup BadTimes \cup LaxTimes \cup NegativeTimes

MergedRow(sched, actual) ==
    [route_id |-> "1", trip_id_realtime |-> <<"0", "_", "A">>,
     trip_id_static |-> <<"W", "_", "0", "_", "A">>,
     trip_id |-> <<"W", "_", "0", "_", "A">>,
     direction_id |-> <<"0">>, track_direction |-> "Northbound",
     service_id |-> "WKD", stop_id |-> <<"1", "N">>,
     stop_name |-> <<"1", "N">>,
     start_date |-> 20240101, start_time |-> <<"0">>,
     scheduled_arrival |-> sched, actual_arrival |-> actual]

\* the stores before any ingestion cycle (init_databases)
IngestInit ==
    /\ rt = <<>>
    /\ hist = <<>>
    /\ rtTx = <<>>
    /\ histTx = <<>>
    /\ rtSeq = 0
    /\ rtSeqTx = 0
    /\ histSeq = 0
    /\ histSeqTx = 0
    /\ pc = "idle"
    /\ batch = <<>>
    /\ pos = 0
    /\ cycles = 0
    /\ lastCycle = [outcome |-> "none", rt0 |-> <<>>, hist0 |-> <<>>]

\* lines 178-200 of main applied to a merged_df
DelayStage ==
    /\ mainResult = "not_run"
    /\ merged_df # <<>>
    /\ \E delays \in {DelayColumn(merged_df)} :
          IF DelayRaises(delays)
          THEN /\ mainResult' = "OverflowError"
               /\ UNCHANGED <<delay_seconds, training_data>>
          ELSE /\ delay_seconds' = delays
               /\ training_data' = Some(FinalDf(merged_df, delays))
               /\ mainResult' = "saved"
    /\ UNCHANGED <<ingestVars, staticVars, realtime_df, matched_trips_df,
                   merged_df>>

InitDelay ==
    /\ IngestInit
    /\ calendar_df = <<>>
    /\ trips_df = <<>>
    /\ stop_times_df = <<>>
    /\ realtime_df = <<>>
    /\ matched_trips_df = <<>>
    /\ \E sched \in SampleTimes, actual \in SampleTimes :
          merged_df = <<MergedRow(sched, actual)>>
    /\ delay_seconds = <<>>
    /\ training_data = None
    /\ mainResult = "not_run"

NextDelay == DelayStage

SpecDelay == InitDelay /\ [][NextDelay]_vars

(***************************************************************************)
(* App.py: ingestion cycles over the two stores                            *)
(***************************************************************************)
CalendarRow(service, days, start, end) ==
    [service_id |-> service,
     monday |-> IF "monday" \in days THEN 1 ELSE 0,
     tuesday |-> IF "tuesday" \in days THEN 1 ELSE 0,
     wednesday |-> IF "wednesday" \in days THEN 1 ELSE 0,
     thursday |-> IF "thursday" \in days THEN 1 ELSE 0,
     friday |-> IF "friday" \in days THEN 1 ELSE 0,
     saturday |-> IF "saturday" \in days THEN 1 ELSE 0,
     sunday |-> IF "sunday" \in days THEN 1 ELSE 0,
     start_date |-> start, end_date |-> end]

Weekdays == {"monday", "tuesday", "wednesday", "thursday", "friday"}

Weekend == {"saturday", "sunday"}

StaticTrip(id, service) ==
    [trip_id |-> id, route_id |-> "1", direction_id |-> <<"0">>,
     service_id |-> service]

TripA == <<"W", "_", "0", "1", "_", "A">>

TripB == <<"W", "_", "0", "2", "_", "A">>

TripC == <<"W", "_", "0", "2", "_", "B">>

SampleCalendar == <<CalendarRow("WKD", Weekdays, 20240101, 20241231)>>

\* TripB and TripC carry the same route, direction, service and start token
SampleTrips == <<StaticTrip(TripA, "WKD"), StaticTrip(TripB, "WKD"),
                 StaticTrip(TripC, "WKD")>>

SampleStopTimes ==
    <<[trip_id |-> TripA, stop_id |-> <<"1", "N">>,
       scheduled_arrival |-> TimeStr(23, 59, 50)],
      [trip_id |-> TripB, stop_id |-> <<"9">>,
       scheduled_arrival |-> TimeStr(8, 0, 0)],
      [trip_id |-> TripC, stop_id |-> <<"9">>,
       scheduled_arrival |-> TimeStr(8, 1, 0)]>>

MainInit ==
    /\ realtime_df = <<>>
    /\ matched_trips_df = <<>>
    /\ merged_df = <<>>
    /\ delay_seconds = <<>>
    /\ training_data = None
    /\ mainResult = "not_run"

Init ==
    /\ IngestInit
    /\ calendar_df = SampleCalendar
    /\ trips_df = SampleTrips
    /\ stop_times_df = SampleStopTimes
    /\ MainInit

Next ==
    \/ \E decoded \in SeqsUpTo(Updates, MaxBatch) : StartCycle(decoded)
    \/ InsertUpdate
    \/ CommitRealtime
    \/ CommitHistorical
    \/ StorageFailure

Spec == Init /\ [][Next]_vars

(***************************************************************************)
(* build_training_data.py: main run on a historical log that a completed   *)
(* ingestion cycle wrote, over drawn service calendars                     *)
(***************************************************************************)
MaxCalendarRows == 2

SampleDates == {20231231, 20240101, 20240106, 20240131, 20240229, 20240301}

SampleWindows == {<<20240101, 20240131>>, <<20240106, 20240229>>,
                  <<20231231, 20231231>>}

CalendarRows ==
    {CalendarRow(sv, days, w[1], w[2]) :
        sv \in {"WKD", "ALT"},
        days \in {Weekdays, Weekend, Weekdays \cup Weekend},
        w \in SampleWindows}

\* the historical log after one completed cycle that decoded us
RECURSIVE LogOf(_, _, _)
LogOf(us, table, id) ==
    IF us = <<>> THEN table
    ELSE LogOf(Tail(us), InsertOrIgnore(table, DataTuple(Head(us)), id + 1),
               id + 1)

DatedUpdate(d) ==
    Update(<<"0", "1", "_", "X">>, StrOfInt(d), <<"1", "N">>,
           NewYear2024 + 10)

\* a trip whose start token is that of TripB and of TripC
AmbiguousUpdate ==
    Update(<<"0", "2", "_", "X">>, Monday, <<"9">>, NewYear2024 + 10)

\* a trip whose start token is that of no static trip
UnknownTripUpdate ==
    Update(<<"0", "3">>, Monday, <<"2", "N">>, NewYear2024 + 10)

SampleLogs ==
    {LogOf(<<DatedUpdate(d)>>, <<>>, 0) : d \in SampleDates}
    \cup {LogOf(<<DatedUpdate(20240301), DatedUpdate(d)>>, <<>>, 0) :
             d \in {20231231, 20240101, 20240106}}
    \cup {LogOf(<<DatedUpdate(20240101), AmbiguousUpdate,
                   UnknownTripUpdate>>, <<>>, 0)}

InitAssemble ==
    /\ IngestInit
    /\ calendar_df \in SeqsUpTo(CalendarRows, MaxCalendarRows)
    /\ trips_df = SampleTrips
    /\ stop_times_df = SampleStopTimes
    /\ MainInit

\* an ingestion cycle that completed before main was started, taken in one
\* step
IngestLog ==
    /\ hist = <<>>
    /\ mainResult = "not_run"
    /\ \E log \in SampleLogs :
          /\ hist' = log
          /\ histTx' = log
          /\ histSeq' = Len(log)
          /\ histSeqTx' = Len(log)
    /\ UNCHANGED <<rt, rtTx, rtSeq, rtSeqTx, pc, batch, pos, cycles,
                   lastCycle, staticVars, mainVars>>

NextAssemble == IngestLog \/ main

SpecAssemble == InitAssemble /\ [][NextAssemble]_vars

(***************************************************************************)
(* Properties                                                              *)
(***************************************************************************)
\* what the fields h:m:s denote as an offset from midnight, not wrapped
Offset(h, m, s) == h * 3600 + m * 60 + s

\* observed - scheduled, 24 hours added to observed exactly when observed
\* is more than 12 hours earlier than scheduled
DelayOf(scheduled, observed) ==
    IF scheduled - observed > 12 * 3600
    THEN observed + 24 * 3600 - scheduled
    ELSE observed - scheduled

\* C3 as stated: a time string with hour field h >= 24 parses to the offset
\* h hours m minutes s seconds, not wrapped modulo 24 hours.
C3_Unwrapped ==
    mainResult = "saved" =>
    \A h \in 24..MaxHour, ms \in MinSecs :
        \A i \in 1..Len(merged_df) :
            merged_df[i].scheduled_arrival = TimeStr(h, ms[1], ms[2])
            => robust_time_parser(merged_df[i].scheduled_arrival)
                   = Some(Offset(h, ms[1], ms[2]))

\* C3 amended: a time string with hour field h >= 24 parses to the time of
\* day (h mod 24) hours m minutes s seconds, the same value as the parse of
\* "(h-24):m:s" ("25:10:00" parses to 1h10m0s).
C3_Wrapped ==
    mainResult = "saved" =>
    \A h \in 24..MaxHour, ms \in MinSecs :
        \A i \in 1..Len(merged_df) :
            merged_df[i].scheduled_arrival = TimeStr(h, ms[1], ms[2])
            => /\ robust_time_parser(merged_df[i].scheduled_arrival)
                      = Some(Offset(h % 24, ms[1], ms[2]))
               /\ robust_time_parser(merged_df[i].scheduled_arrival)
                      = robust_time_parser(TimeStr(h - 24, ms[1], ms[2]))

C3_Witness ==
    /\ mainResult = "saved"
    /\ merged_df[1].scheduled_arrival = TimeStr(25, 10, 0)
    /\ robust_time_parser(merged_df[1].scheduled_arrival) = Some(4200)
    /\ merged_df[1].actual_arrival = TimeStr(1, 10, 0)
    /\ delay_seconds[1] = Some(0)

\* C4 as stated: for parseable scheduled and observed strings the delay is
\* observed - scheduled on the offsets the strings denote (hour fields of 24
\* and more included), with the 24 hour correction exactly when observed is
\* more than 12 hours earlier.
C4_OnOffsets ==
    mainResult = "saved" =>
        \A h1 \in Hours, ms1 \in MinSecs :
            merged_df[1].scheduled_arrival = TimeStr(h1, ms1[1], ms1[2]) =>
            \A h2 \in Hours, ms2 \in MinSecs :
            merged_df[1].actual_arrival = TimeStr(h2, ms2[1], ms2[2])
            => delay_seconds[1] = Some(DelayOf(Offset(h1, ms1[1], ms1[2]),
                                               Offset(h2, ms2[1], ms2[2])))

\* C4 amended: the delay is observed - scheduled on the times of day (hour
\* field modulo 24), with the 24 hour correction exactly when the observed
\* time of day is more than 12 hours earlier than the scheduled one.
C4_OnTimesOfDay ==
    mainResult = "saved" =>
        \A h1 \in Hours, ms1 \in MinSecs :
            merged_df[1].scheduled_arrival = TimeStr(h1, ms1[1], ms1[2]) =>
            \A h2 \in Hours, ms2 \in MinSecs :
            merged_df[1].actual_arrival = TimeStr(h2, ms2[1], ms2[2])
            => delay_seconds[1]
                   = Some(DelayOf(Offset(h1 % 24, ms1[1], ms1[2]),
                                  Offset(h2 % 24, ms2[1], ms2[2])))

C4_Witness ==
    /\ mainResult = "saved"
    /\ merged_df[1].scheduled_arrival = TimeStr(23, 58, 0)
    /\ merged_df[1].actual_arrival = TimeStr(0, 2, 0)
    /\ delay_seconds[1] = Some(240)

\* C7: every row of the written dataset has a numeric delay_seconds of
\* magnitude below 7200, and a record whose scheduled or observed time does
\* not parse, or whose delay has magnitude 7200 or more, is not in it.
C7_FinalRowsPlausible ==
    mainResult = "saved" =>
        LET out == training_data[1] IN
        /\ \A j \in 1..Len(out) :
              /\ "delay_seconds" \in DOMAIN out[j]
              /\ out[j].delay_seconds \in Int
              /\ out[j].delay_seconds > 0 - 7200
              /\ out[j].delay_seconds < 7200
        /\ \A i \in 1..Len(merged_df) :
              (\/ merged_df[i].scheduled_arrival \in BadTimes
               \/ merged_df[i].actual_arrival \in BadTimes
               \/ delay_seconds[i] = None
               \/ delay_seconds[i][1] >= 7200
               \/ delay_seconds[i][1] <= 0 - 7200)
              => ~ \E j \in 1..Len(out) :
                     /\ out[j].scheduled_arrival
                            = merged_df[i].scheduled_arrival
                     /\ out[j].actual_arrival = merged_df[i].actual_arrival
        /\ \A i \in 1..Len(merged_df) :
              (merged_df[i].scheduled_arrival \in BadTimes
               \/ merged_df[i].actual_arrival \in BadTimes)
              <=> delay_seconds[i] = None

C7_Witness ==
    /\ mainResult = "saved"
    /\ merged_df[1].scheduled_arrival = TimeStr(8, 0, 0)
    /\ merged_df[1].actual_arrival = TimeStr(8, 5, 30)
    /\ Len(training_data[1]) = 1
    /\ training_data[1][1].delay_seconds = 330

Keys(table) == {NaturalKey(table[i]) : i \in 1..Len(table)}

\* C1: the historical log, committed or inside the cycle's transaction,
\* never holds two rows with the same natural key
\* (trip_id, start_date, stop_name).
C1_UniqueNaturalKey ==
    /\ \A i, j \in 1..Len(hist) :
          NaturalKey(hist[i]) = NaturalKey(hist[j]) => i = j
    /\ \A i, j \in 1..Len(histTx) :
          NaturalKey(histTx[i]) = NaturalKey(histTx[j]) => i = j

\* a cycle whose batch repeats a key already logged has completed
C1_Witness ==
    /\ lastCycle.outcome = "completed"
    /\ cycles = 2
    /\ Len(batch) = 2
    /\ NaturalKey(DataTuple(batch[1])) = NaturalKey(DataTuple(batch[2]))
    /\ NaturalKey(DataTuple(batch[1])) \in Keys(lastCycle.hist0)
    /\ Len(hist) = 1

\* C2: when a cycle has completed, the snapshot store holds one row per
\* decoded stop_time_update, in decode order, and nothing else, whatever it
\* held when the cycle started.
C2_SnapshotIsLastBatch ==
    lastCycle.outcome = "completed" =>
        /\ Len(rt) = Len(batch)
        /\ \A i \in 1..Len(rt) :
              /\ [c \in DOMAIN rt[i] \ {"id"} |-> rt[i][c]]
                     = DataTuple(batch[i])
              /\ i > 1 => rt[i].id > rt[i - 1].id

\* the second cycle replaced a snapshot of two rows by a different batch
C2_Witness ==
    /\ lastCycle.outcome = "completed"
    /\ cycles = 2
    /\ Len(lastCycle.rt0) = 2
    /\ Len(batch) = 1
    /\ \A i \in 1..2 : \A c \in {"trip_id", "arrival_time"} :
          lastCycle.rt0[i][c] # DataTuple(batch[1])[c]
    /\ Len(rt) = 1

\* the static trips an observation of the log corresponds to: equal route,
\* direction, service and start-time token
StaticMatches(r) ==
    {k \in 1..Len(trips_df) :
        /\ trips_df[k].route_id = r.route_id
        /\ trips_df[k].direction_id = StrOfInt(r.direction_id)
        /\ trips_df[k].service_id = r.service_id
        /\ StaticToken(trips_df[k].trip_id) = RealtimeToken(r.trip_id)}

MainPastMatching == mainResult \in {"no_match", "KeyError", "empty_merge",
                                    "saved"}

\* C5: an observation with two or more matching static trips contributes no
\* row to the matched set, like one with none; one with exactly one match
\* contributes one row, with that trip.
C5_AmbiguousIsUnmatched ==
    MainPastMatching =>
        \A i \in 1..Len(realtime_df) :
            LET r == realtime_df[i]
                rows == {j \in 1..Len(matched_trips_df) :
                            matched_trips_df[j].id = r.id}
            IN IF Cardinality(StaticMatches(r)) = 1
               THEN /\ Cardinality(rows) = 1
                    /\ \A j \in rows : \A k \in StaticMatches(r) :
                          matched_trips_df[j].trip_id_static
                              = trips_df[k].trip_id
               ELSE rows = {}

\* the observation's stop ids: those the Observation Store resolves to the
\* stored stop_name
StopIdsOf(r) ==
    {st.stop_id : st \in {stop_times_df[k] : k \in 1..Len(stop_times_df)}}
        \cap {sid \in DOMAIN stops_df \cup {r.stop_name} :
                 StopName(sid) = r.stop_name}

\* C8: after a run of main, every observation of the log with a service, a
\* unique static trip, a stop-time row for (static trip, stop id) and a
\* delay of magnitude below 7200 is a row of the dataset with that delay.
C8_QualifyingObservationInDataset ==
    mainResult \in {"KeyError", "empty_merge", "saved"} =>
        \A i \in 1..Len(realtime_df) :
            LET r == realtime_df[i] IN
            \A k \in StaticMatches(r) :
            \A n \in 1..Len(stop_times_df) :
                (/\ Cardinality(StaticMatches(r)) = 1
                 /\ stop_times_df[n].trip_id = trips_df[k].trip_id
                 /\ stop_times_df[n].stop_id \in StopIdsOf(r)
                 /\ KeepRow(calculate_delay(
                        [scheduled_arrival |->
                             stop_times_df[n].scheduled_arrival,
                         actual_arrival |-> r.actual_arrival])))
                => /\ training_data # None
                   /\ \E j \in 1..Len(training_data[1]) :
                         /\ training_data[1][j].trip_id_realtime = r.trip_id
                         /\ training_data[1][j].stop_name = r.stop_name
                         /\ training_data[1][j].start_date = r.start_date
                         /\ Some(training_data[1][j].delay_seconds)
                                = calculate_delay(
                                    [scheduled_arrival |->
                                        stop_times_df[n].scheduled_arrival,
                                     actual_arrival |-> r.actual_arrival])

\* C9: a step never removes or changes a committed row of the historical
\* log (the log only grows at its end), and a cycle whose decoded keys are
\* all in the log already leaves the log as it was.
C9_HistoryImmutable ==
    [][/\ Len(hist') >= Len(hist)
       /\ \A i \in 1..Len(hist) : hist'[i] = hist[i]
       /\ (\A i \in 1..Len(batch) :
              NaturalKey(DataTuple(batch[i])) \in Keys(hist))
          => hist' = hist]_vars

\* a completed cycle decoded a logged key with another arrival time, and the
\* logged row kept its arrival time
C9_Witness ==
    /\ lastCycle.outcome = "completed"
    /\ cycles = 2
    /\ Len(batch) = 1
    /\ Len(lastCycle.hist0) = 1
    /\ NaturalKey(DataTuple(batch[1])) = NaturalKey(lastCycle.hist0[1])
    /\ DataTuple(batch[1]).arrival_time # lastCycle.hist0[1].arrival_time
    /\ hist = lastCycle.hist0

\* C10: after a cycle that failed, both stores hold what they held,
\* committed, when the cycle started.
C10_FailedCycleLeavesBothStores ==
    lastCycle.outcome = "failed" =>
        /\ rt = lastCycle.rt0
        /\ hist = lastCycle.hist0

\* the weekday of each sample date, from the calendar
KnownWeekday(d) ==
    IF d = 20231231 THEN "sunday"
    ELSE IF d = 20240101 THEN "monday"
    ELSE IF d = 20240106 THEN "saturday"
    ELSE IF d = 20240131 THEN "wednesday"
    ELSE IF d = 20240229 THEN "thursday"
    ELSE "friday"

Qualifies(row, d) ==
    /\ row.start_date <= d
    /\ d <= row.end_date
    /\ row[KnownWeekday(d)] = 1

\* the first row in table order whose window contains d and whose flag for
\* d's weekday is set; 0 when there is none
FirstQualifying(d) ==
    IF \E k \in 1..Len(calendar_df) : Qualifies(calendar_df[k], d)
    THEN CHOOSE k \in 1..Len(calendar_df) :
            /\ Qualifies(calendar_df[k], d)
            /\ \A n \in 1..(k - 1) : ~ Qualifies(calendar_df[n], d)
    ELSE 0

LogDate(r) == IntOf(r.start_date)[1]

\* C6: after step 2a of main, the frame holds, in log order, exactly the
\* observations whose date has a qualifying calendar row, each with the
\* service_id of the first such row; an observation whose date resolves to
\* None is not in it.
C6_FirstQualifyingService ==
    mainResult # "not_run" =>
        /\ \A i \in 1..Len(hist) :
              IF FirstQualifying(LogDate(hist[i])) = 0
              THEN \A j \in 1..Len(realtime_df) :
                      realtime_df[j].id # hist[i].id
              ELSE \E j \in 1..Len(realtime_df) :
                      /\ realtime_df[j].id = hist[i].id
                      /\ realtime_df[j].service_id
                             = calendar_df[FirstQualifying(
                                   LogDate(hist[i]))].service_id
        /\ \A j \in 1..Len(realtime_df) :
              /\ \E i \in 1..Len(hist) : realtime_df[j].id = hist[i].id
              /\ j > 1 => realtime_df[j].id > realtime_df[j - 1].id
        /\ \A i \in 1..Len(hist) :
              get_service_id_for_date(hist[i].start_date, calendar_df)
                  = IF FirstQualifying(LogDate(hist[i])) = 0 THEN None
                    ELSE Some(calendar_df[FirstQualifying(
                                  LogDate(hist[i]))].service_id)

\* two overlapping rows qualify for the date and the first one's service is
\* taken, while another observation of the log is dropped
C6_Witness ==
    /\ mainResult # "not_run"
    /\ Len(calendar_df) = 2
    /\ Len(hist) = 2
    /\ Qualifies(calendar_df[1], LogDate(hist[2]))
    /\ Qualifies(calendar_df[2], LogDate(hist[2]))
    /\ calendar_df[1].service_id # calendar_df[2].service_id
    /\ FirstQualifying(LogDate(hist[1])) = 0
    /\ Len(realtime_df) = 1
    /\ realtime_df[1].service_id = calendar_df[1].service_id

\* a field that reads as a number: digits, with or without a sign
Numeric(f) ==
    \/ AllDigits(f)
    \/ Len(f) >= 2 /\ f[1] \in {"+", "-"} /\ AllDigits(Tail(f))

\* the inputs named malformed: a value that is not a string, a string whose
\* field count is not three, a field that is not a number, a field of one
\* digit where two are due
Malformed(v) ==
    \/ v \in NonStrings
    \/ Len(Split(v, ":")) # 3
    \/ \E k \in 1..Len(Split(v, ":")) : ~ Numeric(Split(v, ":")[k])
    \/ \E k \in 1..Len(Split(v, ":")) : Len(Split(v, ":")[k]) < 2

\* C11: robust_time_parser never raises, and returns None for every
\* malformed input (a non-string value, a non-numeric component, a field
\* count other than three, a string without zero padding such as "7:5:9");
\* calculate_delay then returns None for a row holding such a value, so the
\* delay stage runs to its end with no delay for that row.
C11_MalformedIsRejected ==
    mainResult # "not_run" =>
        /\ mainResult = "saved"
        /\ \A i \in 1..Len(merged_df) :
              /\ Malformed(merged_df[i].scheduled_arrival)
                    => /\ robust_time_parser(merged_df[i].scheduled_arrival)
                              = None
                       /\ delay_seconds[i] = None
              /\ Malformed(merged_df[i].actual_arrival)
                    => /\ robust_time_parser(merged_df[i].actual_arrival)
                              = None
                       /\ delay_seconds[i] = None

====
